---- MODULE Spec2Model ----
(***************************************************************************)
(* The help command of the cf CLI (command/common/help_command.go).        *)
(*                                                                         *)
(* Go strings are sequences of byte codes (<<97, 98>> is "ab"), so that    *)
(* len() and the byte-wise order of strings are computed, not assumed.     *)
(* Fixed templates and headings handed to the UI stay TLA+ strings.        *)
(* One invocation of the binary constructs a HelpCommand and calls Execute *)
(* once; Execute either returns (pc = "done") or panics (pc = "panic").    *)
(***************************************************************************)
EXTENDS Integers, Sequences, FiniteSets, TLC

VARIABLES
    CommandName,          \* cmd.OptionalArgs.CommandName
    AllCommands,          \* cmd.AllCommands
    cmdInfos,             \* the actor's catalog: command name -> CommandInfo
    actorFault,           \* the error the actor's lookup fails with, or NoError
    plugins,              \* Config.Plugins(): plugin name -> Commands (the slices' backing arrays)
    loadedPlugins,        \* history: the plugin mapping as it was loaded, before any render
    HelpCategoryList,     \* internal.HelpCategoryList
    CommonHelpCategoryList, \* internal.CommonHelpCategoryList
    pc,                   \* "ready" | "done" | "panic"
    out,                  \* the calls received by the UI, in order
    err,                  \* the error Execute returned
    cmdInfo,              \* displayCommand's local cmdInfo
    pluginCommands,       \* the value getSortedPluginCommands returned
    pluginsCallCount      \* how many times Config.Plugins() was called

vars == <<CommandName, AllCommands, cmdInfos, actorFault, plugins, loadedPlugins,
          HelpCategoryList, CommonHelpCategoryList, pc, out, err, cmdInfo,
          pluginCommands, pluginsCallCount>>

-----------------------------------------------------------------------------
(* Bounds of the model. *)

\* longest Flags sequence of a built-in command
MaxFlags == 2
\* longest Commands sequence of a plugin in the listing modes
MaxPluginCmds == 3
\* longest Commands sequence of a plugin in detail mode
MaxLookupCmds == 1

-----------------------------------------------------------------------------
(* Strings. *)

Max(a, b) == IF a >= b THEN a ELSE b
Min(a, b) == IF a <= b THEN a ELSE b

\* Go's < on strings: byte-wise, a proper prefix is smaller.
StrLess(a, b) ==
    \E k \in 1..(Min(Len(a), Len(b)) + 1) :
        /\ \A i \in 1..(k - 1) : a[i] = b[i]
        /\ \/ (k > Len(a) /\ k <= Len(b))
           \/ (k <= Len(a) /\ k <= Len(b) /\ a[k] < b[k])

\* strings.Repeat(" ", n) for n >= 0 (a negative n panics: see RowGapCount)
Repeat(n) == [i \in 1..n |-> 32]

RECURSIVE Replace(_, _, _)
\* strings.Replace(s, old, new, -1) for a non-empty old
Replace(s, old, new) ==
    IF Len(s) < Len(old) THEN s
    ELSE IF SubSeq(s, 1, Len(old)) = old
         THEN new \o Replace(SubSeq(s, Len(old) + 1, Len(s)), old, new)
         ELSE <<s[1]>> \o Replace(Tail(s), old, new)

RECURSIVE Join(_, _)
\* strings.Join(elems, sep)
Join(elems, sep) ==
    IF elems = <<>> THEN <<>>
    ELSE IF Len(elems) = 1 THEN elems[1]
    ELSE elems[1] \o sep \o Join(Tail(elems), sep)

\* the width of fmt.Sprintf("%-29s", ...)
EnvVarWidth == 29
\* fmt.Sprintf("%-29s", s): left-justified, padded with spaces, never truncated
PadEnvVar(s) == s \o Repeat(Max(0, EnvVarWidth - Len(s)))

\* sorting.Alphabetic.Less
AlphabeticLess(a, b) == StrLess(a, b)
\* configv3.PluginCommands.Less
PluginCommandsLess(a, b) == StrLess(a.Name, b.Name)

\* sort.Sort on a short slice is an insertion sort: element i moves left
\* while it is Less than its left neighbour.
\* sort.Sort(sortedPluginNames)
sortAlphabetic(names) ==
    LET insert(sorted, x) ==
            LET stop == {j \in 1..Len(sorted) : ~AlphabeticLess(x, sorted[j])}
                idx == IF stop = {} THEN 0 ELSE CHOOSE j \in stop : \A k \in stop : k <= j
            IN SubSeq(sorted, 1, idx) \o <<x>> \o SubSeq(sorted, idx + 1, Len(sorted))
        f[i \in 0..Len(names)] == IF i = 0 THEN <<>> ELSE insert(f[i - 1], names[i])
    IN f[Len(names)]

\* sort.Sort(sortedCommands)
sortPluginCommands(commands) ==
    LET insert(sorted, x) ==
            LET stop == {j \in 1..Len(sorted) : ~PluginCommandsLess(x, sorted[j])}
                idx == IF stop = {} THEN 0 ELSE CHOOSE j \in stop : \A k \in stop : k <= j
            IN SubSeq(sorted, 1, idx) \o <<x>> \o SubSeq(sorted, idx + 1, Len(sorted))
        f[i \in 0..Len(commands)] == IF i = 0 THEN <<>> ELSE insert(f[i - 1], commands[i])
    IN f[Len(commands)]

RECURSIVE Concat(_)
Concat(seqs) == IF seqs = <<>> THEN <<>> ELSE Head(seqs) \o Concat(Tail(seqs))

\* all sequences over S of length at most n
SeqsUpTo(S, n) == UNION {[1..k -> S] : k \in 0..n}

\* all orders in which a map with these keys can be ranged over
Orders(keys) ==
    {o \in [1..Cardinality(keys) -> keys] : \A i, j \in DOMAIN o : i # j => o[i] # o[j]}

-----------------------------------------------------------------------------
(* Data. *)

BinaryName == <<99, 102>>          \* "cf"
BinaryVersion == <<54>>            \* "6"
CF_NAME == <<67, 70, 95, 78, 65, 77, 69>>

NoError == [kind |-> "nil", CommandName |-> <<>>]
\* sharedaction.ErrorInvalidCommand{CommandName: name}
ErrorInvalidCommand(name) == [kind |-> "ErrorInvalidCommand", CommandName |-> name]
\* any other error of the actor
CatalogError == [kind |-> "CatalogError", CommandName |-> <<>>]

\* sharedaction.CommandInfo{}
EmptyCommandInfo ==
    [Name |-> <<>>, Description |-> <<>>, Alias |-> <<>>, Usage |-> <<>>,
     Flags |-> <<>>, Environment |-> <<>>, RelatedCommands |-> <<>>]

\* internal.ConvertPluginToCommandInfo
ConvertPluginToCommandInfo(command) ==
    [EmptyCommandInfo EXCEPT !.Name = command.Name,
                             !.Description = command.HelpText,
                             !.Alias = command.Alias]

\* HelpActor.CommandInfoByName
CommandInfoByName(infos, fault, name) ==
    IF fault # NoError THEN [info |-> EmptyCommandInfo, err |-> fault]
    ELSE IF name \in DOMAIN infos THEN [info |-> infos[name], err |-> NoError]
    ELSE [info |-> EmptyCommandInfo, err |-> ErrorInvalidCommand(name)]

-----------------------------------------------------------------------------
(* The UI: every call is recorded. *)

DisplayHeader(t) ==
    [op |-> "DisplayHeader", text |-> t, args |-> <<>>, table |-> <<>>, padding |-> 0]
\* text is the template; args are the values the configuration and the
\* data give its placeholders, in the template's order (a fixed text that is
\* only passed through TranslateText is not listed). A line built as
\* indent + value has the indent as text and the value as its argument.
DisplayText(t, a) ==
    [op |-> "DisplayText", text |-> t, args |-> a, table |-> <<>>, padding |-> 0]
DisplayNewline ==
    [op |-> "DisplayNewline", text |-> "", args |-> <<>>, table |-> <<>>, padding |-> 0]
DisplayTable(prefix, t, p) ==
    [op |-> "DisplayTable", text |-> prefix, args |-> <<>>, table |-> t, padding |-> p]

commonCommandsIndent == "  "
allCommandsIndent == "   "
commandIndent == "   "

-----------------------------------------------------------------------------
(* Single-command detail: displayCommand. *)

\* findPlugin: the plugin map is ranged over in `order`, each plugin's
\* Commands front to back; the first command with the name is returned.
findPlugin(plugs, order, name) ==
    LET scanned == Concat([i \in 1..Len(order) |-> plugs[order[i]]])
        hits == {i \in 1..Len(scanned) : scanned[i].Name = name}
    IN IF hits = {}
       THEN [info |-> EmptyCommandInfo, found |-> FALSE]
       ELSE [info |-> ConvertPluginToCommandInfo(
                          scanned[CHOOSE i \in hits : \A j \in hits : i <= j]),
             found |-> TRUE]

\* a plausible slip: the plugins are looked up before the built-ins
resolvePluginFirst(lookup, plugs, order, name) ==
    LET p == findPlugin(plugs, order, name)
    IN IF p.found THEN [err |-> NoError, info |-> p.info, calls |-> 1]
       ELSE IF lookup.err = NoError
            THEN [err |-> NoError, info |-> lookup.info, calls |-> 1]
            ELSE [err |-> lookup.err, info |-> lookup.info, calls |-> 1]

\* a plausible slip: the result of findPlugin is rendered whether found or not
resolveIgnoringFound(lookup, plugs, order, name) ==
    IF lookup.err = NoError THEN [err |-> NoError, info |-> lookup.info, calls |-> 0]
    ELSE IF lookup.err.kind = "ErrorInvalidCommand"
         THEN [err |-> NoError, info |-> findPlugin(plugs, order, name).info, calls |-> 1]
         ELSE [err |-> ErrorInvalidCommand(<<>>), info |-> lookup.info, calls |-> 0]

\* displayCommand, up to its first output: the error returned (NoError when
\* the page is rendered), the cmdInfo rendered, the calls of Config.Plugins().
\* In the else branch `err` is the variable the type assertion declared: on a
\* failed assertion it holds the zero value of sharedaction.ErrorInvalidCommand.
resolveCommand(lookup, plugs, order, name) ==
    IF lookup.err = NoError THEN [err |-> NoError, info |-> lookup.info, calls |-> 0]
    ELSE IF lookup.err.kind = "ErrorInvalidCommand"
         THEN LET p == findPlugin(plugs, order, name)
              IN IF ~p.found
                 THEN [err |-> lookup.err, info |-> p.info, calls |-> 1]
                 ELSE [err |-> NoError, info |-> p.info, calls |-> 1]
         ELSE [err |-> ErrorInvalidCommand(<<>>), info |-> lookup.info, calls |-> 0]

\* a plausible slip: the short-only form gets the long form's dashes
flagNameDoubleDash(flag) ==
    IF flag.Short # <<>> /\ flag.Long # <<>>
    THEN <<45, 45>> \o flag.Long \o <<44, 32, 45>> \o flag.Short
    ELSE <<45, 45>> \o (IF flag.Short # <<>> THEN flag.Short ELSE flag.Long)

\* the formatted name of a flag: "--Long, -Short", "-Short" or "--Long"
flagName(flag) ==
    IF flag.Short # <<>> /\ flag.Long # <<>>
    THEN <<45, 45>> \o flag.Long \o <<44, 32, 45>> \o flag.Short
    ELSE IF flag.Short # <<>>
         THEN <<45>> \o flag.Short
         ELSE <<45, 45>> \o flag.Long

RECURSIVE LongestFlagWidth(_)
\* internal.LongestFlagWidth: the length of the longest formatted flag name
LongestFlagWidth(flags) ==
    IF flags = <<>> THEN 0
    ELSE Max(Len(flagName(Head(flags))), LongestFlagWidth(Tail(flags)))

\* the width added to the longest flag name
FlagPadding == 6

NameSection(info) ==
    << DisplayText("NAME:", <<>>),
       DisplayText("   {{.CommandName}} - {{.CommandDescription}}",
                   <<info.Name, info.Description>>) >>

UsageSection(info) ==
    << DisplayNewline,
       DisplayText("USAGE:", <<>>),
       DisplayText("   {{.CommandUsage}}", <<Replace(info.Usage, CF_NAME, BinaryName)>>) >>

AliasSection(info) ==
    IF info.Alias # <<>>
    THEN << DisplayNewline,
            DisplayText("ALIAS:", <<>>),
            DisplayText("   {{.Alias}}", <<info.Alias>>) >>
    ELSE <<>>

OptionsSection(info) ==
    IF Len(info.Flags) # 0
    THEN LET nameWidth == LongestFlagWidth(info.Flags) + FlagPadding
         IN << DisplayNewline, DisplayText("OPTIONS:", <<>>) >>
            \o [i \in 1..Len(info.Flags) |->
                  LET name == flagName(info.Flags[i])
                  IN DisplayText("   {{.Flags}}{{.Spaces}}{{.Description}}",
                                 <<name, Repeat(nameWidth - Len(name)),
                                   info.Flags[i].Description>>)]
    ELSE <<>>

\* a plausible slip: the section is guarded by the field of the section before
EnvironmentSectionByFlags(info) ==
    IF Len(info.Flags) # 0
    THEN << DisplayNewline, DisplayText("ENVIRONMENT:", <<>>) >>
         \o [i \in 1..Len(info.Environment) |->
               DisplayText("   {{.EnvVar}}{{.Description}}",
                           <<PadEnvVar(info.Environment[i].Name \o <<61>>
                                       \o info.Environment[i].DefaultValue),
                             info.Environment[i].Description>>)]
    ELSE <<>>

EnvironmentSection(info) ==
    IF Len(info.Environment) # 0
    THEN << DisplayNewline, DisplayText("ENVIRONMENT:", <<>>) >>
         \o [i \in 1..Len(info.Environment) |->
               DisplayText("   {{.EnvVar}}{{.Description}}",
                           <<PadEnvVar(info.Environment[i].Name \o <<61>>
                                       \o info.Environment[i].DefaultValue),
                             info.Environment[i].Description>>)]
    ELSE <<>>

SeeAlsoSection(info) ==
    IF Len(info.RelatedCommands) > 0
    THEN << DisplayNewline,
            DisplayText("SEE ALSO:", <<>>),
            DisplayText(commandIndent, <<Join(info.RelatedCommands, <<44, 32>>)>>) >>
    ELSE <<>>

\* displayCommand from its first output on
renderCommand(info) ==
    NameSection(info) \o UsageSection(info) \o AliasSection(info)
    \o OptionsSection(info) \o EnvironmentSection(info) \o SeeAlsoSection(info)

\* Execute with a command name: displayCommand
ExecuteCommand ==
    /\ pc = "ready"
    /\ CommandName # <<>>
    /\ \E order \in Orders(DOMAIN plugins) :
          LET r == resolveCommand(CommandInfoByName(cmdInfos, actorFault, CommandName),
                                  plugins, order, CommandName)
          IN /\ err' = r.err
             /\ cmdInfo' = r.info
             /\ pluginsCallCount' = r.calls
             /\ out' = IF r.err = NoError THEN renderCommand(r.info) ELSE <<>>
    /\ pc' = "done"
    /\ UNCHANGED <<CommandName, AllCommands, cmdInfos, actorFault, plugins, loadedPlugins,
                   HelpCategoryList, CommonHelpCategoryList, pluginCommands>>

-----------------------------------------------------------------------------
(* The plugin command index: getSortedPluginCommands. *)

\* a plausible slip: the plugin names are used in the order the map gave them
getPluginCommandsInMapOrder(plugs, order) ==
    LET sorted == [p \in DOMAIN plugs |-> sortPluginCommands(plugs[p])]
    IN [result |-> Concat([i \in 1..Len(order) |-> sorted[order[i]]]),
        plugs |-> sorted]

\* getSortedPluginCommands, with the plugin map ranged over in `order`:
\* the sequence returned, and the plugin mapping afterwards. sortedCommands
\* is the slice plugins[pluginName].Commands itself, not a copy of it, so
\* sort.Sort reorders the Commands of the mapping Config.Plugins() returned.
getSortedPluginCommands(plugs, order) ==
    LET sortedPluginNames == sortAlphabetic(order)
        sorted == [p \in DOMAIN plugs |-> sortPluginCommands(plugs[p])]
    IN [result |-> Concat([i \in 1..Len(sortedPluginNames) |->
                              sorted[sortedPluginNames[i]]]),
        plugs |-> sorted]

-----------------------------------------------------------------------------
(* The full listing: displayHelpPreamble, displayAllCommands, displayHelpFooter. *)

globalOptionsTableData ==
    << <<"--help, -h", "Show help">>,
       <<"-v", "Print API request diagnostics to stdout">> >>

environmentalVariablesTableData ==
    << <<"CF_COLOR=false", "Do not colorize output">>,
       <<"CF_DIAL_TIMEOUT=5",
         "Max wait time to establish a connection, including name resolution, in seconds">>,
       <<"CF_HOME=path/to/dir/", "Override path to default config directory">>,
       <<"CF_PLUGIN_HOME=path/to/dir/", "Override path to default plugin config directory">>,
       <<"CF_TRACE=true", "Print API request diagnostics to stdout">>,
       <<"CF_TRACE=path/to/trace.log", "Append API request diagnostics to a log file">>,
       <<"https_proxy=proxy.example.com:8080", "Enable HTTP proxying for API requests">> >>

displayHelpPreamble ==
    << DisplayHeader("NAME:"),
       DisplayText("   {{.CommandName}} - {{.CommandDescription}}", <<BinaryName>>),
       DisplayNewline,
       DisplayHeader("USAGE:"),
       DisplayText("   {{.CommandName}} {{.CommandUsage}}", <<BinaryName>>),
       DisplayNewline,
       DisplayHeader("VERSION:"),
       DisplayText(allCommandsIndent, <<BinaryVersion>>),
       DisplayNewline >>

displayHelpFooter ==
    << DisplayHeader("ENVIRONMENT VARIABLES:"),
       DisplayTable(allCommandsIndent, environmentalVariablesTableData, 1),
       DisplayNewline,
       DisplayHeader("GLOBAL OPTIONS:"),
       DisplayTable(allCommandsIndent, globalOptionsTableData, 25) >>

Range(s) == {s[i] : i \in DOMAIN s}

\* the identifiers the category lists refer to
ReferencedCommands(cats) ==
    UNION {Range(row) : row \in UNION {Range(cat.CommandList) : cat \in Range(cats)}}

\* internal.LongestCommandName: the longest name among the built-in commands
\* of the map that the category lists refer to and the plugin commands
LongestCommandName(infos, cats, pluginCmds) ==
    LET lens == {Len(n) : n \in (DOMAIN infos) \cap ReferencedCommands(cats)}
                \cup {Len(pluginCmds[i].Name) : i \in DOMAIN pluginCmds}
    IN IF lens = {} THEN 0 ELSE CHOOSE m \in lens : \A l \in lens : l <= m

\* strings.Repeat panics on a negative count: the call that stands for it
Panic == [op |-> "panic", text |-> "strings: negative Repeat count",
          args |-> <<>>, table |-> <<>>, padding |-> 0]

allCommandsRow == "   {{.CommandName}}{{.Gap}}{{.CommandDescription}}"

\* one row of the listing: `key` is what len() is taken of
commandRow(name, description, key, longestCmd) ==
    LET count == longestCmd + 1 - Len(key)
    IN IF count < 0 THEN Panic
       ELSE DisplayText(allCommandsRow, <<name, Repeat(count), description>>)

\* cmdInfo[command] of a Go map: the zero value for a missing key
Lookup(infos, command) ==
    IF command \in DOMAIN infos THEN infos[command] ELSE EmptyCommandInfo

displayAllCommands(infos, cats, pluginCmds) ==
    LET longestCmd == LongestCommandName(infos, cats, pluginCmds)
        rowLines(row) ==
            [k \in 1..Len(row) |->
                commandRow(Lookup(infos, row[k]).Name, Lookup(infos, row[k]).Description,
                           row[k], longestCmd)]
            \o <<DisplayNewline>>
        categoryLines(cat) ==
            <<DisplayHeader(cat.CategoryName)>>
            \o Concat([r \in 1..Len(cat.CommandList) |-> rowLines(cat.CommandList[r])])
    IN Concat([c \in 1..Len(cats) |-> categoryLines(cats[c])])
       \o <<DisplayHeader("INSTALLED PLUGIN COMMANDS:")>>
       \o [i \in 1..Len(pluginCmds) |->
             commandRow(pluginCmds[i].Name, pluginCmds[i].HelpText,
                        pluginCmds[i].Name, longestCmd)]
       \o <<DisplayNewline>>

\* the calls made before the first panic, all of them when there is none
UntilPanic(lines) ==
    LET at == {i \in 1..Len(lines) : lines[i].op = "panic"}
    IN IF at = {} THEN lines
       ELSE SubSeq(lines, 1, (CHOOSE i \in at : \A j \in at : i <= j) - 1)

\* Execute without a command name, with -a: displayFullHelp, AllCommands
ExecuteAllCommands ==
    /\ pc = "ready"
    /\ CommandName = <<>>
    /\ AllCommands
    /\ \E order \in Orders(DOMAIN plugins) :
       \E sorted \in {getSortedPluginCommands(plugins, order)} :
       \E lines \in {displayHelpPreamble
                     \o displayAllCommands(cmdInfos, HelpCategoryList, sorted.result)
                     \o displayHelpFooter} :
          /\ plugins' = sorted.plugs
          /\ pluginCommands' = sorted.result
          /\ out' = UntilPanic(lines)
          /\ pc' = IF \E i \in 1..Len(lines) : lines[i].op = "panic" THEN "panic" ELSE "done"
    /\ pluginsCallCount' = 1
    /\ err' = NoError
    /\ UNCHANGED <<CommandName, AllCommands, cmdInfos, actorFault, loadedPlugins,
                   HelpCategoryList, CommonHelpCategoryList, cmdInfo>>

-----------------------------------------------------------------------------
(* The common-commands summary: displayCommonCommands. *)

\* the number of columns of the plugin table
TableColumns == 3

\* a plausible slip: the table is filled row by row
pluginTableRowMajor(pluginCmds) ==
    LET size == (Len(pluginCmds) + TableColumns - 1) \div TableColumns
    IN [i \in 1..size |->
          [j \in 1..TableColumns |->
              LET index == (i - 1) * TableColumns + (j - 1)
              IN IF index < Len(pluginCmds) THEN pluginCmds[index + 1].Name ELSE <<>>]]

\* the plugin table: size = ceil(len / 3) rows of 3 cells, cell [i][j] (from
\* 0) holding the name at i + j*size
pluginTable(pluginCmds) ==
    LET size == (Len(pluginCmds) + TableColumns - 1) \div TableColumns
    IN [i \in 1..size |->
          [j \in 1..TableColumns |->
              LET index == (i - 1) + (j - 1) * size
              IN IF index < Len(pluginCmds) THEN pluginCmds[index + 1].Name ELSE <<>>]]

\* one row of a category's table: the commands of the row that the map holds
commonRow(infos, row) ==
    LET present == SelectSeq(row, LAMBDA command : command \in DOMAIN infos)
    IN [k \in 1..Len(present) |->
          infos[present[k]].Name
          \o (IF Len(infos[present[k]].Alias) > 0 THEN <<44>> ELSE <<>>)
          \o infos[present[k]].Alias]

displayCommonCommands(infos, cats, pluginCmds) ==
    << DisplayText("{{.CommandName}} {{.VersionCommand}} {{.Version}}, {{.CLI}}",
                   <<BinaryName, BinaryVersion>>),
       DisplayText("{{.Usage}} {{.CommandName}} {{.CommandUsage}}", <<BinaryName>>),
       DisplayNewline >>
    \o Concat([c \in 1..Len(cats) |->
                 << DisplayHeader(cats[c].CategoryName),
                    DisplayTable(commonCommandsIndent,
                                 [r \in 1..Len(cats[c].CommandList) |->
                                     commonRow(infos, cats[c].CommandList[r])], 4),
                    DisplayNewline >>])
    \o << DisplayHeader("Commands offered by installed plugins:"),
          DisplayTable(commonCommandsIndent, pluginTable(pluginCmds), 4),
          DisplayNewline,
          DisplayHeader("Global options:"),
          DisplayTable(commonCommandsIndent, globalOptionsTableData, 25),
          DisplayNewline,
          DisplayText("These are commonly used commands. Use 'cf help -a' to see all, with descriptions.", <<>>),
          DisplayText("See 'cf help <command>' to read about a specific command.", <<>>) >>

\* Execute without a command name or -a: displayFullHelp, the summary
ExecuteCommonCommands ==
    /\ pc = "ready"
    /\ CommandName = <<>>
    /\ ~AllCommands
    /\ \E order \in Orders(DOMAIN plugins) :
       \E sorted \in {getSortedPluginCommands(plugins, order)} :
          /\ plugins' = sorted.plugs
          /\ pluginCommands' = sorted.result
          /\ out' = displayCommonCommands(cmdInfos, CommonHelpCategoryList, sorted.result)
    /\ pc' = "done"
    /\ pluginsCallCount' = 1
    /\ err' = NoError
    /\ UNCHANGED <<CommandName, AllCommands, cmdInfos, actorFault, loadedPlugins,
                   HelpCategoryList, CommonHelpCategoryList, cmdInfo>>

-----------------------------------------------------------------------------
(* The states after construction. *)

\* the names of the installed plugins: "Z" and "a"
PluginNames == {<<90>>, <<97>>}

\* every plugin mapping over some of the names, with Commands from `pool`
PluginMappings(pool, n) ==
    UNION {[S -> SeqsUpTo(pool, n)] : S \in SUBSET PluginNames}

\* detail mode: a built-in command "a" of any shape, and plugin commands
\* that share its name or each other's
FlagPool ==
    { [Short |-> <<118>>, Long |-> <<>>, Description |-> <<100>>],
      [Short |-> <<>>, Long |-> <<108, 111>>, Description |-> <<100>>],
      [Short |-> <<118>>, Long |-> <<108, 111>>, Description |-> <<100>>] }

DetailCommandInfos ==
    { [Name |-> <<97>>, Description |-> <<98>>, Usage |-> CF_NAME \o <<32, 97>>,
       Alias |-> alias, Flags |-> flags, Environment |-> environment,
       RelatedCommands |-> related] :
         alias \in {<<>>, <<107>>},
         flags \in SeqsUpTo(FlagPool, MaxFlags),
         environment \in {<<>>, <<[Name |-> <<69>>, DefaultValue |-> <<49>>,
                                   Description |-> <<100>>]>>},
         related \in {<<>>, << <<97, 98>>, <<120>> >>} }

LookupPool ==
    { [Name |-> <<97>>, HelpText |-> <<104>>, Alias |-> <<>>],
      [Name |-> <<97>>, HelpText |-> <<105>>, Alias |-> <<106>>],
      [Name |-> <<97, 98>>, HelpText |-> <<104>>, Alias |-> <<>>] }

InitDetail ==
    /\ CommandName \in {<<97>>, <<97, 98>>, <<120>>}
    /\ AllCommands = FALSE
    /\ cmdInfos \in {<<>>} \cup {(<<97>> :> info) : info \in DetailCommandInfos}
    /\ actorFault \in {NoError, CatalogError}
    /\ plugins \in PluginMappings(LookupPool, MaxLookupCmds)
    /\ loadedPlugins = plugins
    /\ HelpCategoryList = <<>>
    /\ CommonHelpCategoryList = <<>>
    /\ pc = "ready"
    /\ out = <<>>
    /\ err = NoError
    /\ cmdInfo = EmptyCommandInfo
    /\ pluginCommands = <<>>
    /\ pluginsCallCount = 0

\* the listing modes: plugins with commands in any order, category lists
\* that do and do not refer to commands missing from the catalog
ListingPool ==
    { [Name |-> <<66>>, HelpText |-> <<104>>, Alias |-> <<>>],
      [Name |-> <<97>>, HelpText |-> <<104>>, Alias |-> <<>>],
      [Name |-> <<97, 98>>, HelpText |-> <<104>>, Alias |-> <<>>] }

Builtin(name, alias) ==
    [EmptyCommandInfo EXCEPT !.Name = name, !.Description = <<98>>, !.Alias = alias]

GettingStarted(rows) == [CategoryName |-> "GETTING STARTED:", CommandList |-> rows]

\* a catalog with the category list of the same build: built-ins "c" and
\* "cd"; "cd" and "wxyz" are referred to by lists of builds that lack them
Installations ==
    { [catalog |-> <<>>, categories |-> <<>>],
      [catalog |-> (<<99>> :> Builtin(<<99>>, <<107>>))
                   @@ (<<99, 100>> :> Builtin(<<99, 100>>, <<>>)),
       categories |-> << GettingStarted(<< <<<<99>>>>, <<<<99, 100>>>> >>),
                         [CategoryName |-> "APPS:", CommandList |-> <<>>] >>],
      [catalog |-> (<<99>> :> Builtin(<<99>>, <<>>))
                   @@ (<<99, 100>> :> Builtin(<<99, 100>>, <<>>)),
       categories |-> << GettingStarted(<< <<<<99>>, <<99, 100>>>> >>) >>],
      [catalog |-> (<<99>> :> Builtin(<<99>>, <<>>)),
       categories |-> << GettingStarted(<< <<<<99>>, <<99, 100>>>> >>) >>],
      [catalog |-> (<<99>> :> Builtin(<<99>>, <<>>)),
       categories |-> << GettingStarted(<< <<<<99>>, <<119, 120, 121, 122>>>> >>) >>] }

\* a render reads one of the two category lists: one choice serves both
InitListing ==
    /\ CommandName = <<>>
    /\ AllCommands \in BOOLEAN
    /\ \E inst \in Installations :
          /\ cmdInfos = inst.catalog
          /\ HelpCategoryList = inst.categories
          /\ CommonHelpCategoryList = inst.categories
    /\ actorFault = NoError
    /\ plugins \in PluginMappings(ListingPool, MaxPluginCmds)
    /\ loadedPlugins = plugins
    /\ pc = "ready"
    /\ out = <<>>
    /\ err = NoError
    /\ cmdInfo = EmptyCommandInfo
    /\ pluginCommands = <<>>
    /\ pluginsCallCount = 0

Init == InitDetail \/ InitListing

NextDetail == ExecuteCommand
NextListing == ExecuteAllCommands \/ ExecuteCommonCommands
Next == ExecuteCommand \/ ExecuteAllCommands \/ ExecuteCommonCommands

\* Execute: one of the three renders, by the arguments
SpecDetail == InitDetail /\ [][NextDetail]_vars
SpecListing == InitListing /\ [][NextListing]_vars
Spec == Init /\ [][Next]_vars

-----------------------------------------------------------------------------
(* The properties. *)

Rendered == pc = "done" /\ CommandName # <<>> /\ err = NoError

\* some installed plugin has a command with the name
PluginHas(name) ==
    \E p \in DOMAIN plugins : \E i \in DOMAIN plugins[p] : plugins[p][i].Name = name

\* C1: a command name found in the built-in catalog is rendered from the
\* built-in CommandInfo, and the plugins are not looked up at all, also when
\* an installed plugin has a command of that name.
C1_BuiltinNotShadowed ==
    (/\ pc = "done"
     /\ actorFault = NoError
     /\ CommandName \in DOMAIN cmdInfos
     /\ PluginHas(CommandName))
    => /\ err = NoError
       /\ pluginsCallCount = 0
       /\ cmdInfo = cmdInfos[CommandName]
       /\ out[1] = DisplayText("NAME:", <<>>)
       /\ out[2].args = <<cmdInfos[CommandName].Name, cmdInfos[CommandName].Description>>

C1_Witness ==
    /\ pc = "done"
    /\ actorFault = NoError
    /\ CommandName \in DOMAIN cmdInfos
    /\ \E p \in DOMAIN plugins : \E i \in DOMAIN plugins[p] :
          /\ plugins[p][i].Name = CommandName
          /\ plugins[p][i].HelpText # cmdInfos[CommandName].Description
    /\ Len(out) >= 2

\* C2: a command name that is neither in the built-in catalog nor the name
\* of a command of an installed plugin makes Execute return the actor's
\* unknown-command error, with nothing sent to the UI.
C2_UnknownCommandRendersNothing ==
    (/\ pc = "done"
     /\ CommandName # <<>>
     /\ actorFault = NoError
     /\ CommandName \notin DOMAIN cmdInfos
     /\ ~PluginHas(CommandName))
    => /\ err = ErrorInvalidCommand(CommandName)
       /\ out = <<>>

C2_Witness ==
    /\ pc = "done"
    /\ actorFault = NoError
    /\ CommandName \notin DOMAIN cmdInfos
    /\ ~PluginHas(CommandName)
    /\ plugins # <<>>
    /\ \E p \in DOMAIN plugins : plugins[p] # <<>>
    /\ pluginsCallCount = 1
    /\ err.kind = "ErrorInvalidCommand"

\* C3: an error of the actor other than ErrorInvalidCommand is returned as it
\* is, without a plugin lookup and with nothing sent to the UI.
C3_OtherErrorReturnedUnchanged ==
    (pc = "done" /\ CommandName # <<>> /\ actorFault # NoError)
    => /\ err = actorFault
       /\ pluginsCallCount = 0
       /\ out = <<>>

\* the table displayed under the plugin heading of the summary
SummaryPluginTable ==
    LET h == CHOOSE k \in DOMAIN out :
                out[k] = DisplayHeader("Commands offered by installed plugins:")
    IN out[h + 1].table

SummaryDone == pc = "done" /\ CommandName = <<>> /\ ~AllCommands

\* C4: the plugin table of the summary has ceil(N/3) rows of 3 cells, cell
\* [i][j] (from 0) is the name at i + j*rows of the sorted plugin commands,
\* or empty when there is none, and every element lands in exactly one cell.
C4_ColumnMajorTable ==
    SummaryDone =>
       LET N == Len(pluginCommands)
           rows == CHOOSE r \in 0..N : 3 * r >= N /\ 3 * (r - 1) < N
           table == SummaryPluginTable
       IN /\ Len(table) = rows
          /\ \A i \in 0..(rows - 1) :
                /\ Len(table[i + 1]) = 3
                /\ \A j \in 0..2 :
                      table[i + 1][j + 1] =
                          IF i + j * rows < N
                          THEN pluginCommands[i + j * rows + 1].Name
                          ELSE <<>>
          /\ \A k \in 0..(N - 1) :
                Cardinality({c \in (0..(rows - 1)) \X (0..2) : c[1] + c[2] * rows = k}) = 1

C4_Witness ==
    /\ SummaryDone
    /\ Len(pluginCommands) = 5
    /\ Len(SummaryPluginTable) = 2
    /\ SummaryPluginTable[2][3] = <<>>
    /\ SummaryPluginTable[1][2] = pluginCommands[3].Name
    /\ pluginCommands[3].Name # pluginCommands[2].Name

RECURSIVE LenBefore(_, _, _)
\* the number of commands of the plugins of `names` that sort before p
LenBefore(mapping, names, p) ==
    IF names = {} THEN 0
    ELSE LET q == CHOOSE n \in names : TRUE
         IN (IF StrLess(q, p) THEN Len(mapping[q]) ELSE 0)
            + LenBefore(mapping, names \ {q}, p)

Occurrences(seq, x) == Cardinality({i \in DOMAIN seq : seq[i] = x})

ListingRan == pc # "ready" /\ CommandName = <<>>

\* C5: getSortedPluginCommands returns the commands of the plugins, each
\* once: plugin after plugin in ascending byte-wise order of the plugin
\* names, and the commands of one plugin in ascending order of their names.
C5_TwoLevelSort ==
    ListingRan =>
       /\ Len(pluginCommands)
            = LenBefore(loadedPlugins, DOMAIN loadedPlugins, <<255>>)
       /\ \A p \in DOMAIN loadedPlugins :
             LET from == LenBefore(loadedPlugins, DOMAIN loadedPlugins, p)
                 part == SubSeq(pluginCommands, from + 1, from + Len(loadedPlugins[p]))
             IN /\ Len(part) = Len(loadedPlugins[p])
                /\ \A i \in DOMAIN part :
                      Occurrences(part, part[i]) = Occurrences(loadedPlugins[p], part[i])
                /\ \A i, j \in DOMAIN part :
                      i < j => ~StrLess(part[j].Name, part[i].Name)

C5_Witness ==
    /\ ListingRan
    /\ \A p \in DOMAIN loadedPlugins : Len(loadedPlugins[p]) = 2
    /\ [p \in DOMAIN loadedPlugins |-> [i \in 1..2 |-> loadedPlugins[p][i].Name]]
         = (<<90>> :> << <<97, 98>>, <<97>> >>) @@ (<<97>> :> << <<97>>, <<66>> >>)
    /\ [i \in DOMAIN pluginCommands |-> pluginCommands[i].Name]
         = << <<97>>, <<97, 98>>, <<66>>, <<97>> >>

SectionHeadings == {"NAME:", "USAGE:", "ALIAS:", "OPTIONS:", "ENVIRONMENT:", "SEE ALSO:"}
OptionalHeadings == {"ALIAS:", "OPTIONS:", "ENVIRONMENT:", "SEE ALSO:"}

IsHeading(line) == line.op = "DisplayText" /\ line.text \in SectionHeadings

HeadingIf(present, heading) == IF present THEN <<heading>> ELSE <<>>

\* C6: a detail page has its sections in the order NAME, USAGE, ALIAS,
\* OPTIONS, ENVIRONMENT, SEE ALSO; NAME and USAGE always, each of the other
\* four exactly when its own field is not empty, and then after exactly one
\* blank line.
C6_SectionsByOwnField ==
    Rendered =>
       LET headings == SelectSeq(out, IsHeading)
           blanks == {k \in DOMAIN out : out[k].op = "DisplayNewline"}
       IN /\ [k \in DOMAIN headings |-> headings[k].text]
               = <<"NAME:", "USAGE:">>
                 \o HeadingIf(cmdInfo.Alias # <<>>, "ALIAS:")
                 \o HeadingIf(cmdInfo.Flags # <<>>, "OPTIONS:")
                 \o HeadingIf(cmdInfo.Environment # <<>>, "ENVIRONMENT:")
                 \o HeadingIf(cmdInfo.RelatedCommands # <<>>, "SEE ALSO:")
          /\ IsHeading(out[1])
          /\ \A k \in DOMAIN out :
                (IsHeading(out[k]) /\ out[k].text \in OptionalHeadings)
                => /\ k - 1 \in blanks
                   /\ k - 2 \notin blanks
          /\ \A k \in blanks : k + 1 \in DOMAIN out /\ IsHeading(out[k + 1])

C6_Witness ==
    /\ Rendered
    /\ cmdInfo.Alias = <<>>
    /\ cmdInfo.Flags # <<>>
    /\ cmdInfo.Environment = <<>>
    /\ cmdInfo.RelatedCommands # <<>>
    /\ \E k \in DOMAIN out : out[k].text = "SEE ALSO:"
    /\ \E k \in DOMAIN out : out[k].text = "USAGE:" /\ out[k + 3].text = "OPTIONS:"

AllCommandsRan == pc # "ready" /\ CommandName = <<>> /\ AllCommands

\* C7: every row of the full listing, also one whose identifier is missing
\* from the command-info map, prints its name and a gap of at least one
\* space that together are longestCmd + 1 wide.
C7_SharedWidthOnEveryRow ==
    AllCommandsRan =>
       /\ pc = "done"
       /\ \A k \in DOMAIN out :
             out[k].text = allCommandsRow
             => /\ Len(out[k].args[2]) >= 1
                /\ Len(out[k].args[1]) + Len(out[k].args[2])
                     = LongestCommandName(cmdInfos, HelpCategoryList, pluginCommands) + 1

\* the rows of the OPTIONS section, one for each flag
OptionRows ==
    LET h == CHOOSE k \in DOMAIN out : out[k] = DisplayText("OPTIONS:", <<>>)
    IN [i \in DOMAIN cmdInfo.Flags |-> out[h + i]]

\* C8: a flag is named "--Long, -Short", "-Short" or "--Long", and every
\* name is followed by spaces up to the width of the longest name of the
\* command plus 6.
C8_FlagNamesAndPadding ==
    (Rendered /\ cmdInfo.Flags # <<>>) =>
       LET flags == cmdInfo.Flags
           rows == OptionRows
           width == CHOOSE w \in 0..64 :
                       /\ \A i \in DOMAIN rows : Len(rows[i].args[1]) + 6 <= w
                       /\ \E i \in DOMAIN rows : Len(rows[i].args[1]) + 6 = w
       IN \A i \in DOMAIN flags :
             /\ (flags[i].Short # <<>> /\ flags[i].Long # <<>>)
                => rows[i].args[1]
                     = <<45, 45>> \o flags[i].Long \o <<44, 32, 45>> \o flags[i].Short
             /\ (flags[i].Short # <<>> /\ flags[i].Long = <<>>)
                => rows[i].args[1] = <<45>> \o flags[i].Short
             /\ (flags[i].Short = <<>> /\ flags[i].Long # <<>>)
                => rows[i].args[1] = <<45, 45>> \o flags[i].Long
             /\ \A c \in DOMAIN rows[i].args[2] : rows[i].args[2][c] = 32
             /\ Len(rows[i].args[1]) + Len(rows[i].args[2]) = width
             /\ Len(rows[i].args[2]) >= 6
             /\ rows[i].args[3] = flags[i].Description

C8_Witness ==
    /\ Rendered
    /\ Len(cmdInfo.Flags) = 2
    /\ cmdInfo.Flags[1].Long = <<>>
    /\ cmdInfo.Flags[2].Short # <<>> /\ cmdInfo.Flags[2].Long # <<>>
    /\ OptionRows[1].args[1] = <<45, 118>>
    /\ Len(OptionRows[1].args[2]) = 12
    /\ Len(OptionRows[2].args[2]) = 6

\* C9: a render changes none of its inputs: not the plugin mapping, with the
\* order of every plugin's Commands, nor the catalog, nor the category lists.
C9_InputsUnchanged ==
    [][/\ plugins' = plugins
       /\ cmdInfos' = cmdInfos
       /\ HelpCategoryList' = HelpCategoryList
       /\ CommonHelpCategoryList' = CommonHelpCategoryList]_vars

\* C10: what a render returns and displays does not depend on the order in
\* which the plugin map is ranged over: any order gives the sequence of
\* sorted plugin commands and the resolution of the command name that this
\* run had.
C10_IterationOrderIrrelevant ==
    (pc = "done" /\ CommandName # <<>>) =>
       \A o \in Orders(DOMAIN plugins) :
          /\ getSortedPluginCommands(plugins, o).result
               = getSortedPluginCommands(plugins, sortAlphabetic(o)).result
          /\ LET r == resolveCommand(CommandInfoByName(cmdInfos, actorFault, CommandName),
                                     plugins, o, CommandName)
             IN r.err = err /\ r.info = cmdInfo

====
